---- MODULE Spec2Model ----
(***************************************************************************)
(* rustminder: calendar reminders derived from plain-text records.         *)
(*                                                                         *)
(* The date model (src/src/date/mod.rs), the record grammar and the event  *)
(* derivation (src/src/event), and the selection of the next events        *)
(* (src/src/event/mod.rs).                                                 *)
(* The lines of the files without their comments (src/src/file/mod.rs)    *)
(* and the run of main (src/src/main.rs).                                  *)
(*                                                                         *)
(* Dates are records [year, month, day]; the derived Ord of the Rust       *)
(* structs compares (year, month, day) lexicographically, because Fixed is *)
(* {year, date} and Recurring is {month, day} in field order.              *)
(* Day, month and year stay far from the limits of u32 and i32 in every    *)
(* input below, so the checked additions of the source never overflow.     *)
(***************************************************************************)
EXTENDS Integers, Sequences, FiniteSets, TLC

VARIABLES
    now,    \* the wall-clock date, what Utc::now() gives
    events, \* main's Vec<Event>
    call,   \* the operation called last and its arguments; in Spec, main's frame
    ret     \* what that operation returned; in Spec, what the run has given

vars == <<now, events, call, ret>>

(***************************************************************************)
(* Bounds of the inputs.                                                   *)
(***************************************************************************)
MaxDay == 32
MaxMonth == 13
MaxEvents == 3
MaxCommaSlots == 4
MaxSemiSlots == 5
MaxEqualSlots == 3
\* the loops of the source are evaluated this many iterations at a time
LoopBlock == 32

(***************************************************************************)
(* date/mod.rs: the date model.                                            *)
(***************************************************************************)
Recurring_new(day, month) == [month |-> month, day |-> day]

Fixed_new(day, month, year) == [year |-> year, month |-> month, day |-> day]

\* the date (month, day) part of a Fixed
DateOf(f) == Recurring_new(f.day, f.month)

\* derived Ord of Recurring: month, then day
Recurring_lt(a, b) ==
    \/ a.month < b.month
    \/ a.month = b.month /\ a.day < b.day

\* derived Ord of Fixed: year, then the Recurring
Fixed_lt(a, b) ==
    \/ a.year < b.year
    \/ a.year = b.year /\ Recurring_lt(DateOf(a), DateOf(b))

Fixed_le(a, b) == Fixed_lt(a, b) \/ a = b

is_leap_no_century(year) == year % 4 = 0

is_leap(year) ==
    IF year % 400 = 0 THEN TRUE
    ELSE IF year % 100 = 0 THEN FALSE
    ELSE IF year % 4 = 0 THEN TRUE
    ELSE FALSE

last_day_no_leap(month, year) ==
    IF month \in {1, 3, 5, 7, 8, 10, 12} THEN 31
    ELSE IF month \in {4, 6, 9, 11} THEN 30
    ELSE IF month = 2 THEN 28
    ELSE 31

last_day(month, year) ==
    IF month \in {1, 3, 5, 7, 8, 10, 12} THEN 31
    ELSE IF month \in {4, 6, 9, 11} THEN 30
    ELSE IF month = 2 THEN (IF is_leap(year) THEN 29 ELSE 28)
    ELSE 31

\* Fixed::next: the day after self
next(self) ==
    LET d1 == self.day + 1
        roll == d1 > last_day(self.month, self.year)
        d2 == IF roll THEN 1 ELSE d1
        m2 == IF roll THEN self.month + 1 ELSE self.month
    IN  IF m2 > 12
        THEN Fixed_new(1, 1, self.year + 1)
        ELSE Fixed_new(d2, m2, self.year)

\* From<Recurring> for Fixed: the recurring date in the current year
Fixed_from(value, today) == Fixed_new(value.day, value.month, today.year)

next_match_le(self, today) ==
    LET n0 == Fixed_from(DateOf(self), today)
        n1 == IF Fixed_le(n0, today) THEN [n0 EXCEPT !.year = n0.year + 1] ELSE n0
    IN  IF DateOf(n1) = Recurring_new(29, 2) /\ ~is_leap(n1.year)
        THEN Fixed_new(28, 2, n1.year)
        ELSE n1

next_match_this_year(self, today) ==
    LET n0 == Fixed_from(DateOf(self), today)
    IN  IF DateOf(n0) = Recurring_new(29, 2) /\ ~is_leap(n0.year)
        THEN Fixed_new(28, 2, n0.year)
        ELSE n0

\* Fixed::next_match: the date with self's day and month in [today, today + 1 year)
next_match(self, today) ==
    LET n0 == Fixed_from(DateOf(self), today)
        n1 == IF Fixed_lt(n0, today) THEN [n0 EXCEPT !.year = n0.year + 1] ELSE n0
    IN  IF DateOf(n1) = Recurring_new(29, 2) /\ ~is_leap(n1.year)
        THEN Fixed_new(28, 2, n1.year)
        ELSE n1

year_diff(self, target) == target.year - self.year

\* every value a Fixed can hold
FixedValues == [year : Int, month : Nat, day : Nat]

\* Fixed::to, the loop `while current < target { current = current.next();
\* count += 1 }`: at most `fuel` of its iterations, from (current, count)
to_loop[current \in FixedValues, count \in Nat, target \in FixedValues, fuel \in Nat] ==
    IF fuel = 0 \/ ~Fixed_lt(current, target)
    THEN [current |-> current, count |-> count]
    ELSE to_loop[next(current), count + 1, target, fuel - 1]

\* the same loop run to its end, LoopBlock iterations at a time
to_from[current \in FixedValues, count \in Nat, target \in FixedValues] ==
    LET s == to_loop[current, count, target, LoopBlock]
    IN  IF Fixed_lt(s.current, target)
        THEN to_from[s.current, s.count, target]
        ELSE s.count

\* Fixed::to: the number of next() steps from self until target is reached
to(self, target) == to_from[self, 0, target]

(***************************************************************************)
(* Text.  A &str is a sequence of one-character strings.  split, find,     *)
(* trim and parse are those of the Rust standard library, called by the    *)
(* parsers below.                                                          *)
(***************************************************************************)
Ok(v) == [ok |-> TRUE, val |-> v]

Err(e) == [ok |-> FALSE, err |-> e]

\* str::find(c): the position of the first c, 0 for None
find(s, c) ==
    IF \E i \in 1..Len(s) : s[i] = c
    THEN CHOOSE i \in 1..Len(s) : s[i] = c /\ \A j \in 1..(i - 1) : s[j] # c
    ELSE 0

\* str::split(c), collected: one slot more than there are c in s
RECURSIVE split(_, _)
split(s, c) ==
    LET p == find(s, c)
    IN  IF p = 0
        THEN <<s>>
        ELSE <<SubSeq(s, 1, p - 1)>> \o split(SubSeq(s, p + 1, Len(s)), c)

Whitespace == {" "}

\* str::trim()
trim(s) ==
    LET body == {i \in 1..Len(s) : s[i] \notin Whitespace}
    IN  IF body = {}
        THEN <<>>
        ELSE SubSeq(s, CHOOSE i \in body : \A j \in body : i <= j,
                       CHOOSE i \in body : \A j \in body : i >= j)

Digits == <<"0", "1", "2", "3", "4", "5", "6", "7", "8", "9">>

IsDigit(c) == \E i \in 1..Len(Digits) : Digits[i] = c

DigitValue(c) == (CHOOSE i \in 1..Len(Digits) : Digits[i] = c) - 1

RECURSIVE digits_value(_)
digits_value(s) ==
    IF s = <<>> THEN 0
    ELSE 10 * digits_value(SubSeq(s, 1, Len(s) - 1)) + DigitValue(s[Len(s)])

AllDigits(s) == s # <<>> /\ \A i \in 1..Len(s) : IsDigit(s[i])

\* str::parse::<u32>(): an optional '+', then digits only
parse_u32(s) ==
    LET body == IF s # <<>> /\ s[1] = "+" THEN Tail(s) ELSE s
    IN  IF AllDigits(body) THEN Ok(digits_value(body)) ELSE Err("ParseIntError")

\* str::parse::<i32>(): an optional sign, then digits only
parse_i32(s) ==
    LET signed == s # <<>> /\ s[1] \in {"+", "-"}
        body == IF signed THEN Tail(s) ELSE s
    IN  IF ~AllDigits(body) THEN Err("ParseIntError")
        ELSE IF signed /\ s[1] = "-" THEN Ok(0 - digits_value(body))
        ELSE Ok(digits_value(body))

(***************************************************************************)
(* date/mod.rs: the parsers of the dates.                                  *)
(***************************************************************************)
Recurring_try_from_no_extra(value) ==
    LET slots == split(value, ",")
    IN  IF Len(slots) < 2 THEN Err("missing 'month' slot")
        ELSE LET month == parse_u32(trim(slots[2]))
                 day == parse_u32(trim(slots[1]))
             IN  IF ~month.ok THEN Err("failed to parse month")
                 ELSE IF ~day.ok THEN Err("failed to parse day")
                 ELSE Ok(Recurring_new(day.val, month.val))

\* TryFrom<&str> for Recurring: "day,month"
Recurring_try_from(value) ==
    LET slots == split(value, ",")
    IN  IF Len(slots) < 2 THEN Err("missing 'month' slot")
        ELSE IF Len(slots) > 2 THEN Err("extra ',' found")
        ELSE LET month == parse_u32(trim(slots[2]))
                 day == parse_u32(trim(slots[1]))
             IN  IF ~month.ok THEN Err("failed to parse month")
                 ELSE IF ~day.ok THEN Err("failed to parse day")
                 ELSE Ok(Recurring_new(day.val, month.val))

\* TryFrom<&str> for Fixed: "day,month,year"; the text before the second
\* ',' is parsed as a Recurring, the rest, from that ',' on, holds the year
Fixed_try_from(value) ==
    LET first == find(value, ",")
    IN  IF first = 0 THEN Err("missing first separator")
        ELSE
        LET second == find(SubSeq(value, first + 1, Len(value)), ",")
        IN  IF second = 0 THEN Err("missing second separator")
            ELSE
            LET date_slice == SubSeq(value, 1, first + second - 1)
                remaining == SubSeq(value, first + second, Len(value))
                date == Recurring_try_from(date_slice)
                slots == split(remaining, ",")
            IN  IF ~date.ok THEN date
                ELSE IF Len(slots) < 2 THEN Err("missing 'year' slot")
                ELSE IF Len(slots) > 2 THEN Err("extra ',' found")
                ELSE LET year == parse_i32(trim(slots[2]))
                     IN  IF ~year.ok THEN Err("failed to parse year")
                         ELSE Ok(Fixed_new(date.val.day, date.val.month, year.val))

\* AnyDate: tagged Recurring or Fixed
AnyDate_Recurring(r) == [tag |-> "Recurring", date |-> r]

AnyDate_Fixed(f) == [tag |-> "Fixed", date |-> f]

\* TryFrom<&str> for AnyDate: Recurring first, then Fixed
AnyDate_try_from(value) ==
    LET recurring == Recurring_try_from(value)
        fixed == Fixed_try_from(value)
    IN  IF recurring.ok THEN Ok(AnyDate_Recurring(recurring.val))
        ELSE IF fixed.ok THEN Ok(AnyDate_Fixed(fixed.val))
        ELSE Err("no Date format matched")

(***************************************************************************)
(* event/mod.rs: events and the selection of the next ones.                *)
(***************************************************************************)
KIND_LIST == <<"Birthday", "SaintDay", "Wedding", "Holiday", "Special">>

EventKind == {KIND_LIST[i] : i \in 1..Len(KIND_LIST)}

Event(kind, date, desc) == [kind |-> kind, date |-> date, desc |-> desc]

\* the loop of get_next from the event at index i on, without the clear()
RECURSIVE get_next_scan_no_clear(_, _, _, _, _)
get_next_scan_no_clear(evs, kind, today, i, nxt) ==
    IF i > Len(evs) THEN nxt
    ELSE IF ~(evs[i].kind = kind /\ ~Fixed_lt(evs[i].date, today))
    THEN get_next_scan_no_clear(evs, kind, today, i + 1, nxt)
    ELSE IF nxt = <<>>
    THEN get_next_scan_no_clear(evs, kind, today, i + 1, <<i>>)
    ELSE IF Fixed_lt(evs[i].date, evs[nxt[1]].date)
    THEN get_next_scan_no_clear(evs, kind, today, i + 1, Append(nxt, i))
    ELSE IF evs[i].date = evs[nxt[1]].date
    THEN get_next_scan_no_clear(evs, kind, today, i + 1, Append(nxt, i))
    ELSE get_next_scan_no_clear(evs, kind, today, i + 1, nxt)

get_next_no_clear(evs, kind, today) ==
    get_next_scan_no_clear(evs, kind, today, 1, <<>>)

\* the loop of get_next from the event at index i on; nxt holds the indices
\* of the events referenced so far: events of the wanted kind, not before
\* today, are compared with the first one kept
RECURSIVE get_next_scan(_, _, _, _, _)
get_next_scan(evs, kind, today, i, nxt) ==
    IF i > Len(evs) THEN nxt
    ELSE IF ~(evs[i].kind = kind /\ ~Fixed_lt(evs[i].date, today))
    THEN get_next_scan(evs, kind, today, i + 1, nxt)
    ELSE IF nxt = <<>>
    THEN get_next_scan(evs, kind, today, i + 1, <<i>>)
    ELSE IF Fixed_lt(evs[i].date, evs[nxt[1]].date)
    THEN get_next_scan(evs, kind, today, i + 1, <<i>>)
    ELSE IF evs[i].date = evs[nxt[1]].date
    THEN get_next_scan(evs, kind, today, i + 1, Append(nxt, i))
    ELSE get_next_scan(evs, kind, today, i + 1, nxt)

get_next_past_too(evs, kind, today) ==
    get_next_scan(evs, kind, Fixed_new(0, 0, 0), 1, <<>>)

\* get_next: the references (indices into the list) to the next events of kind
get_next(evs, kind, today) == get_next_scan(evs, kind, today, 1, <<>>)

(***************************************************************************)
(* event/person, event/holiday, event/special: the records, their parsers  *)
(* and the events they are expanded into.                                  *)
(***************************************************************************)
None == [some |-> FALSE]

Some(v) == [some |-> TRUE, val |-> v]

\* format!("{}", n) of an integer
RECURSIVE format_nat(_)
format_nat(n) ==
    IF n < 10 THEN <<Digits[n + 1]>>
    ELSE format_nat(n \div 10) \o <<Digits[(n % 10) + 1]>>

format_int(n) == IF n < 0 THEN <<"-">> \o format_nat(0 - n) ELSE format_nat(n)

parse_name_last_only(value) ==
    LET slots == split(value, ",")
    IN  IF Len(slots) < 2 THEN Err("missing 'last_name' slot")
        ELSE IF Len(slots) < 3 THEN Err("missing 'nickname' slot")
        ELSE IF Len(slots) > 3 THEN Err("extra ',' found")
        ELSE LET first_name == trim(slots[1])
                 last_name == trim(slots[2])
                 nickname == trim(slots[3])
             IN  IF nickname # <<>> THEN Ok(nickname)
                 ELSE IF last_name = <<>> /\ first_name = <<>>
                 THEN Err("at least first_name or nickname must be provided")
                 ELSE IF last_name = <<>> THEN Ok(first_name)
                 ELSE IF first_name = <<>> THEN Ok(last_name)
                 ELSE Ok(first_name \o <<" ">> \o last_name)

\* parse_name: "first_name,last_name,nickname"
parse_name(value) ==
    LET slots == split(value, ",")
    IN  IF Len(slots) < 2 THEN Err("missing 'last_name' slot")
        ELSE IF Len(slots) < 3 THEN Err("missing 'nickname' slot")
        ELSE IF Len(slots) > 3 THEN Err("extra ',' found")
        ELSE LET first_name == trim(slots[1])
                 last_name == trim(slots[2])
                 nickname == trim(slots[3])
             IN  IF nickname # <<>> THEN Ok(nickname)
                 ELSE IF first_name = <<>>
                 THEN Err("at least first_name or nickname must be provided")
                 ELSE IF last_name = <<>> THEN Ok(first_name)
                 ELSE Ok(first_name \o <<" ">> \o last_name)

Person(name, birthday, saint_day, wedding_day) ==
    [name |-> name, birthday |-> birthday,
     saint_day |-> saint_day, wedding_day |-> wedding_day]

\* an optional date slot of a person: empty after trim() is None
optional_date(slot, parsed) ==
    IF trim(slot) = <<>> THEN Ok(None)
    ELSE IF parsed.ok THEN Ok(Some(parsed.val))
    ELSE parsed

\* TryFrom<&str> for Person: "name;birthday;saint_day;wedding_day"
Person_try_from(value) ==
    LET slots == split(value, ";")
    IN  IF Len(slots) < 2 THEN Err("missing 'birthday' slot")
        ELSE IF Len(slots) < 3 THEN Err("missing 'saint_day' slot")
        ELSE IF Len(slots) < 4 THEN Err("missing 'wedding_day' slot")
        ELSE IF Len(slots) > 4 THEN Err("extra ';' found")
        ELSE LET name == parse_name(slots[1])
                 birthday == optional_date(slots[2], AnyDate_try_from(slots[2]))
                 saint_day == optional_date(slots[3], Recurring_try_from(slots[3]))
                 wedding_day == optional_date(slots[4], AnyDate_try_from(slots[4]))
             IN  IF ~name.ok THEN name
                 ELSE IF ~birthday.ok THEN birthday
                 ELSE IF ~saint_day.ok THEN saint_day
                 ELSE IF ~wedding_day.ok THEN wedding_day
                 ELSE Ok(Person(name.val, birthday.val, saint_day.val, wedding_day.val))

\* get_next_and_diff: the next match of a date, and the years to it when
\* the date has a year
get_next_and_diff(date, today) ==
    IF date.tag = "Recurring"
    THEN [next |-> next_match(Fixed_from(date.date, today), today), diff |-> None]
    ELSE LET nxt == next_match(date.date, today)
         IN  [next |-> nxt, diff |-> Some(year_diff(date.date, nxt))]

AgeOpen == <<" ", "(", "a", "g", "e", " ">>

YearOpen == <<" ", "(", "y", "e", "a", "r", " ">>

\* format!("{} (age {})", name, n) and format!("{} (year {})", name, n)
counted_desc(name, open, diff) ==
    IF diff.some THEN name \o open \o format_int(diff.val) \o <<")">> ELSE name

Person_into_events_wedding_first(self, today) ==
    LET b == get_next_and_diff(self.birthday.val, today)
        w == get_next_and_diff(self.wedding_day.val, today)
    IN  (IF self.wedding_day.some
         THEN <<Event("Wedding", w.next, counted_desc(self.name, YearOpen, w.diff))>>
         ELSE <<>>)
        \o (IF self.birthday.some
         THEN <<Event("Birthday", b.next, counted_desc(self.name, AgeOpen, b.diff))>>
         ELSE <<>>)
        \o (IF self.saint_day.some
         THEN <<Event("SaintDay",
                      next_match(Fixed_from(self.saint_day.val, today), today),
                      self.name)>>
         ELSE <<>>)

\* IntoEvents for Person
Person_into_events(self, today) ==
    LET b == get_next_and_diff(self.birthday.val, today)
        w == get_next_and_diff(self.wedding_day.val, today)
    IN  (IF self.birthday.some
         THEN <<Event("Birthday", b.next, counted_desc(self.name, AgeOpen, b.diff))>>
         ELSE <<>>)
        \o (IF self.saint_day.some
         THEN <<Event("SaintDay",
                      next_match(Fixed_from(self.saint_day.val, today), today),
                      self.name)>>
         ELSE <<>>)
        \o (IF self.wedding_day.some
         THEN <<Event("Wedding", w.next, counted_desc(self.name, YearOpen, w.diff))>>
         ELSE <<>>)

HolidayKind_Recurring(r) == [tag |-> "Recurring", date |-> r]

HolidayKind_Fixed(f) == [tag |-> "Fixed", date |-> f]

HolidayKind_Span(begin, end) == [tag |-> "Span", begin |-> begin, end |-> end]

Holiday(desc, kind) == [desc |-> desc, kind |-> kind]

Holiday_try_from_end_ignored(value) ==
    LET slots == split(value, ";")
    IN  IF Len(slots) < 2 THEN Err("missing 'begin' slot")
        ELSE IF Len(slots) > 3 THEN Err("extra ';' found")
        ELSE LET desc == trim(slots[1])
                 recurring == Recurring_try_from(slots[2])
                 fixed == Fixed_try_from(slots[2])
             IN  IF recurring.ok
                 THEN Ok(Holiday(desc, HolidayKind_Recurring(recurring.val)))
                 ELSE IF fixed.ok
                 THEN Ok(Holiday(desc, HolidayKind_Fixed(fixed.val)))
                 ELSE Err("no Holiday format matched")

\* TryFrom<&str> for Holiday: "desc;begin" or "desc;begin;end"
Holiday_try_from(value) ==
    LET slots == split(value, ";")
    IN  IF Len(slots) < 2 THEN Err("missing 'begin' slot")
        ELSE IF Len(slots) > 3 THEN Err("extra ';' found")
        ELSE LET desc == trim(slots[1])
             IN  IF Len(slots) = 3
                 THEN LET begin == Fixed_try_from(slots[2])
                          end == Fixed_try_from(slots[3])
                      IN  IF ~begin.ok THEN begin
                          ELSE IF ~end.ok THEN end
                          ELSE IF Fixed_lt(begin.val, end.val)
                          THEN Ok(Holiday(desc, HolidayKind_Span(begin.val, end.val)))
                          ELSE IF begin.val = end.val
                          THEN Ok(Holiday(desc, HolidayKind_Fixed(begin.val)))
                          ELSE Err("begin is after end")
                 ELSE LET recurring == Recurring_try_from(slots[2])
                          fixed == Fixed_try_from(slots[2])
                      IN  IF recurring.ok
                          THEN Ok(Holiday(desc, HolidayKind_Recurring(recurring.val)))
                          ELSE IF fixed.ok
                          THEN Ok(Holiday(desc, HolidayKind_Fixed(fixed.val)))
                          ELSE Err("no Holiday format matched")

DaysRemaining ==
    <<" ", "d", "a", "y", "s", " ", "r", "e", "m", "a", "i", "n", "i", "n", "g", ")">>

\* the loop of the Span arm: `while current <= end`, one event a day,
\* remaining decremented before it is formatted
RECURSIVE span_events(_, _, _, _)
span_events(desc, current, end, remaining) ==
    IF Fixed_le(current, end)
    THEN <<Event("Holiday", current,
                 desc \o <<" ", "(">> \o format_int(remaining - 1) \o DaysRemaining)>>
           \o span_events(desc, next(current), end, remaining - 1)
    ELSE <<>>

\* IntoEvents for Holiday
Holiday_into_events(self, today) ==
    IF self.kind.tag = "Recurring"
    THEN <<Event("Holiday",
                 next_match(Fixed_from(self.kind.date, today), today), self.desc)>>
    ELSE IF self.kind.tag = "Fixed"
    THEN <<Event("Holiday", next_match(self.kind.date, today), self.desc)>>
    ELSE span_events(self.desc, self.kind.begin, self.kind.end,
                     to(self.kind.begin, self.kind.end) + 1)

Special(desc, date) == [desc |-> desc, date |-> date]

\* TryFrom<&str> for Special: "desc;date"
Special_try_from(value) ==
    LET slots == split(value, ";")
    IN  IF Len(slots) < 2 THEN Err("missing 'date' slot")
        ELSE IF Len(slots) > 2 THEN Err("extra ';' found")
        ELSE LET desc == trim(slots[1])
                 date == Fixed_try_from(slots[2])
             IN  IF ~date.ok THEN date ELSE Ok(Special(desc, date.val))

\* IntoEvents for Special
Special_into_events(self) == <<Event("Special", self.date, self.desc)>>

PersonWord == <<"p", "e", "r", "s", "o", "n">>

HolidayWord == <<"h", "o", "l", "i", "d", "a", "y">>

SpecialWord == <<"s", "p", "e", "c", "i", "a", "l">>

\* extract: "kind=body" to the events of the record
extract(line, today) ==
    LET slots == split(line, "=")
    IN  IF Len(slots) < 2 THEN Err("missing 'event' slot")
        ELSE IF Len(slots) > 2 THEN Err("extra '=' found")
        ELSE LET event_kind == trim(slots[1])
                 person == Person_try_from(slots[2])
                 holiday == Holiday_try_from(slots[2])
                 special == Special_try_from(slots[2])
             IN  IF event_kind = PersonWord
                 THEN (IF person.ok
                       THEN Ok(Person_into_events(person.val, today)) ELSE person)
                 ELSE IF event_kind = HolidayWord
                 THEN (IF holiday.ok
                       THEN Ok(Holiday_into_events(holiday.val, today)) ELSE holiday)
                 ELSE IF event_kind = SpecialWord
                 THEN (IF special.ok
                       THEN Ok(Special_into_events(special.val)) ELSE special)
                 ELSE Err("no EventKind matched")

push_all_clears(extracted, vec) ==
    IF extracted.ok
    THEN [result |-> Ok(<<>>), vec |-> vec \o extracted.val]
    ELSE [result |-> extracted, vec |-> <<>>]

push_all_in_front(extracted, vec) ==
    IF extracted.ok
    THEN [result |-> Ok(<<>>), vec |-> extracted.val \o vec]
    ELSE [result |-> extracted, vec |-> vec]

\* for event in events { vec.push(event); } Ok(()), or the error of extract
push_all(extracted, vec) ==
    IF extracted.ok
    THEN [result |-> Ok(<<>>), vec |-> vec \o extracted.val]
    ELSE [result |-> extracted, vec |-> vec]

\* add_from: the result, and vec after the call; extract()? returns before
\* the first push
add_from(line, vec, today) == push_all(extract(line, today), vec)

(***************************************************************************)
(* file/mod.rs: the lines of the files, without comments.  data is the     *)
(* lines read so far and to come, at the number of lines already read.     *)
(***************************************************************************)
SanitizedLinesIterator_next_keeps_empty(data, at) ==
    IF at >= Len(data)
    THEN [item |-> None, at |-> at]
    ELSE [item |-> Some(split(data[at + 1], "#")[1]), at |-> at + 1]

\* Iterator::next: the item, and the position after the call
RECURSIVE SanitizedLinesIterator_next(_, _)
SanitizedLinesIterator_next(data, at) ==
    IF at >= Len(data)
    THEN [item |-> None, at |-> at]
    ELSE LET sanitized_line == split(data[at + 1], "#")[1]
         IN  IF sanitized_line = <<>>
             THEN SanitizedLinesIterator_next(data, at + 1)
             ELSE [item |-> Some(sanitized_line), at |-> at + 1]

(***************************************************************************)
(* Inputs of the date operations.  Fixed::new and the parsers validate     *)
(* neither day nor month, so day 0, month 0, day 32 and month 13 are       *)
(* values the program can hold.                                            *)
(***************************************************************************)
YearInputs == {1900, 1971, 1972, 2000, 2023, 2024}

FixedInputs ==
    {Fixed_new(d, m, y) : d \in 0..MaxDay, m \in 0..MaxMonth, y \in YearInputs}

\* the dates the clock can show: real calendar dates
IsDateOfClock(f) ==
    /\ f.month \in 1..12
    /\ f.day \in 1..last_day(f.month, f.year)

Epoch == Fixed_new(1, 1, 1970)

\* the ends and the starts of the months, where `to` crosses a boundary
EdgeDays == {0, 1, 2} \cup (27..MaxDay)
EdgeMonths == {0, 1, 2, 3, 12} \cup {MaxMonth}

ToInputs ==
    {Fixed_new(d, m, y) : d \in EdgeDays, m \in EdgeMonths, y \in YearInputs}

\* targets around self, before and after it, and the first day of the next year
ToTargets(self) ==
    {t \in ToInputs : t.year = self.year /\ t.month \in (self.month - 1)..(self.month + 1)}
        \cup {Fixed_new(1, 1, self.year + 1)}

(***************************************************************************)
(* SpecDate: the date arithmetic, called on every input.                   *)
(***************************************************************************)
NoCall == [op |-> "none", text |-> <<>>]
NoRet == [none |-> TRUE]

InitDate ==
    /\ now = Epoch
    /\ events = <<>>
    /\ call = NoCall
    /\ ret = NoRet

CallNext ==
    /\ call.op = "none"
    /\ \E self \in FixedInputs :
          /\ call' = [op |-> "next", self |-> self]
          /\ ret' = [date |-> next(self)]
    /\ UNCHANGED <<now, events>>

CallTo ==
    /\ call.op = "none"
    /\ \E self \in ToInputs : \E target \in ToTargets(self) :
          /\ call' = [op |-> "to", self |-> self, target |-> target]
          /\ ret' = [count |-> to(self, target)]
    /\ UNCHANGED <<now, events>>

NextDate == CallNext \/ CallTo

SpecDate == InitDate /\ [][NextDate]_vars

(***************************************************************************)
(* The calendar, stated independently of the code: the leap-year rule,     *)
(* the lengths of the months and the number of a day counted from          *)
(* 1 January of year 1.                                                    *)
(***************************************************************************)
LeapRule(y) == (y % 400 = 0) \/ (y % 4 = 0 /\ y % 100 # 0)

MonthLengths == <<31, 28, 31, 30, 31, 30, 31, 31, 30, 31, 30, 31>>

DaysBeforeMonth == <<0, 31, 59, 90, 120, 151, 181, 212, 243, 273, 304, 334>>

DaysIn(m, y) == MonthLengths[m] + (IF m = 2 /\ LeapRule(y) THEN 1 ELSE 0)

IsCalendarDate(f) ==
    /\ f.month \in 1..12
    /\ f.day >= 1
    /\ f.day <= DaysIn(f.month, f.year)

DayNumber(f) ==
    LET y == f.year - 1
    IN  365 * y + (y \div 4) - (y \div 100) + (y \div 400)
          + DaysBeforeMonth[f.month]
          + (IF f.month > 2 /\ LeapRule(f.year) THEN 1 ELSE 0)
          + f.day

\* next() applied n times to d
next_times[d \in FixedValues, n \in Nat] ==
    IF n = 0 THEN d ELSE next_times[next(d), n - 1]

next_far[d \in FixedValues, n \in Nat] ==
    IF n <= LoopBlock
    THEN next_times[d, n]
    ELSE next_far[next_times[d, LoopBlock], n - LoopBlock]

NextTimes(d, n) == next_far[d, n]

(***************************************************************************)
(* C3: for every valid calendar date d, next(d) is the calendar day that   *)
(* follows d under the leap-year rule: the day is incremented, past the    *)
(* end of the month it is day 1 of the next month, past 31 December it is  *)
(* 1 January of the next year; and next applied 365 times (366 in a leap   *)
(* year) to 1 January of Y gives 1 January of Y + 1.                       *)
(***************************************************************************)
C3_NextIsFollowingDay ==
    (call.op = "next" /\ IsCalendarDate(call.self)) =>
        LET d == call.self
            r == ret.date
        IN  /\ IsCalendarDate(r)
            /\ DayNumber(r) = DayNumber(d) + 1
            /\ \/ r = Fixed_new(d.day + 1, d.month, d.year)
               \/ /\ d.day = DaysIn(d.month, d.year)
                  /\ r = Fixed_new(1, d.month + 1, d.year)
               \/ /\ d.day = 31 /\ d.month = 12
                  /\ r = Fixed_new(1, 1, d.year + 1)
            /\ (d.day = 1 /\ d.month = 1) =>
                  NextTimes(d, IF LeapRule(d.year) THEN 366 ELSE 365)
                      = Fixed_new(1, 1, d.year + 1)

\* 28 February of 1900, which is no leap year, is followed by 1 March
C3_Witness ==
    /\ call.op = "next"
    /\ call.self = Fixed_new(28, 2, 1900)
    /\ ret.date = Fixed_new(1, 3, 1900)

(***************************************************************************)
(* C4: next() never produces an invalid calendar date, whatever Fixed      *)
(* value it is called on: the result has a month in 1..12 and a day in     *)
(* 1..last day of that month.                                              *)
(***************************************************************************)
C4_NextAlwaysValid ==
    call.op = "next" => IsCalendarDate(ret.date)

ClockYears == {1999, 2023, 2024, 2099}
ClockMonths == {1, 2, 3, 12}
ClockDays == 1..31

Todays ==
    {f \in {Fixed_new(d, m, y) : d \in ClockDays, m \in ClockMonths, y \in ClockYears} :
        IsDateOfClock(f)}

MatchInputs ==
    {Fixed_new(d, m, 1990) : d \in 0..MaxDay, m \in 0..MaxMonth}

InitMatch ==
    /\ now \in Todays
    /\ events = <<>>
    /\ call = NoCall
    /\ ret = NoRet

CallNextMatch ==
    /\ call.op = "none"
    /\ \E self \in MatchInputs :
          /\ call' = [op |-> "next_match", self |-> self]
          /\ ret' = [date |-> next_match(self, now)]
    /\ UNCHANGED <<now, events>>

NextMatch == CallNextMatch

SpecMatch == InitMatch /\ [][NextMatch]_vars

\* (year, month, day) of a before that of b
Before(a, b) ==
    \/ a.year < b.year
    \/ a.year = b.year /\ a.month < b.month
    \/ a.year = b.year /\ a.month = b.month /\ a.day < b.day

\* a month and a day some year has: 29 February included
IsRealMonthDay(f) ==
    /\ f.month \in 1..12
    /\ f.day >= 1
    /\ f.day <= MonthLengths[f.month] + (IF f.month = 2 THEN 1 ELSE 0)

IsFeb29(f) == f.month = 2 /\ f.day = 29

(***************************************************************************)
(* C2: for every Fixed date f with a real month and day (29 February       *)
(* included) and every today, r = next_match(f) satisfies today <= r and   *)
(* r < (today.year + 1, today.month, today.day); r has the month and day   *)
(* of f, except that 29 February becomes 28 February when r's year is no   *)
(* leap year, so r is never 29 February of a non-leap year.                *)
(***************************************************************************)
C2_NextMatchWithinOneYear ==
    (call.op = "next_match" /\ IsRealMonthDay(call.self)) =>
        LET f == call.self
            r == ret.date
        IN  /\ ~Before(r, now)
            /\ Before(r, Fixed_new(now.day, now.month, now.year + 1))
            /\ IF IsFeb29(f) /\ ~LeapRule(r.year)
               THEN r.month = 2 /\ r.day = 28
               ELSE r.month = f.month /\ r.day = f.day
            /\ ~(IsFeb29(r) /\ ~LeapRule(r.year))
            /\ r.year \in {now.year, now.year + 1}

\* on 1 March 2024, 29 February is next matched in 2025, on the 28th
C2_Witness ==
    /\ call.op = "next_match"
    /\ now = Fixed_new(1, 3, 2024)
    /\ call.self = Fixed_new(29, 2, 1990)
    /\ ret.date = Fixed_new(28, 2, 2025)

(***************************************************************************)
(* SpecSelect: get_next on every event list, for every kind.               *)
(***************************************************************************)
\* the clock at the selection: events of SelectDates on both sides of it,
\* and none left after the last of them
SelectTodays ==
    {Fixed_new(15, 6, 2023), Fixed_new(21, 6, 2023), Fixed_new(2, 1, 2024)}

\* before today, today, and later by the day, by the month and by the year
SelectDates ==
    {Fixed_new(14, 6, 2023), Fixed_new(15, 6, 2023), Fixed_new(20, 6, 2023),
     Fixed_new(1, 7, 2023), Fixed_new(1, 1, 2024)}

SelectEvents ==
    {Event(k, d, <<"a">>) : k \in {"Birthday", "Holiday"}, d \in SelectDates}

EventLists ==
    UNION {[1..n -> SelectEvents] : n \in 0..MaxEvents}

InitSelect ==
    /\ now \in SelectTodays
    /\ events \in EventLists
    /\ call = NoCall
    /\ ret = NoRet

CallGetNext ==
    /\ call.op = "none"
    /\ \E kind \in EventKind :
          /\ call' = [op |-> "get_next", kind |-> kind]
          /\ ret' = [next |-> get_next(events, kind, now)]
    /\ UNCHANGED <<now, events>>

NextSelect == CallGetNext

SpecSelect == InitSelect /\ [][NextSelect]_vars

\* the indices of the events of kind k that are not before today
Upcoming(evs, k, today) ==
    {i \in 1..Len(evs) : evs[i].kind = k /\ ~Before(evs[i].date, today)}

\* those of them that no other one precedes
Soonest(evs, k, today) ==
    {i \in Upcoming(evs, k, today) :
        \A j \in Upcoming(evs, k, today) : ~Before(evs[j].date, evs[i].date)}

(***************************************************************************)
(* C1: get_next(events, k) returns exactly the events of kind k whose date *)
(* is the minimum date among the events of kind k with date >= today, in   *)
(* their order in the list; it is empty when no event of kind k has a date *)
(* >= today.                                                               *)
(***************************************************************************)
C1_GetNextIsSoonest ==
    call.op = "get_next" =>
        LET r == ret.next
            S == Soonest(events, call.kind, now)
        IN  /\ Len(r) = Cardinality(S)
            /\ \A j \in 1..Len(r) : r[j] \in S
            /\ \A j \in 1..Len(r) : \A k \in 1..Len(r) : j < k => r[j] < r[k]
            /\ (Upcoming(events, call.kind, now) = {}) => r = <<>>

\* two events tied on a date, then a sooner one of the same kind: only the
\* last is returned
C1_Witness ==
    /\ call.op = "get_next"
    /\ now = Fixed_new(15, 6, 2023)
    /\ call.kind = "Holiday"
    /\ Len(events) = 3
    /\ events[1].date = Fixed_new(1, 7, 2023)
    /\ events[2].date = Fixed_new(1, 7, 2023)
    /\ events[3].date = Fixed_new(20, 6, 2023)
    /\ \A i \in 1..3 : events[i].kind = "Holiday"
    /\ ret.next = <<3>>

(***************************************************************************)
(* SpecParse: the parsers, called on texts joined from slots.  The slots   *)
(* the text was joined from are kept with the call.                        *)
(***************************************************************************)
RECURSIVE join(_, _)
join(slots, c) ==
    IF Len(slots) = 1 THEN slots[1]
    ELSE slots[1] \o <<c>> \o join(Tail(slots), c)

SlotLists(texts, n) == UNION {[1..k -> texts] : k \in 1..n}

\* day, month and year slots: empty, plain, padded, two digits, no number,
\* negative
NumberSlots ==
    {<<>>,
     <<"1">>,
     <<" ", "2", " ">>,
     <<"2", "9">>,
     <<"x">>,
     <<"-", "6">>}

NameSlots ==
    {<<>>,
     <<" ">>,
     <<"a">>,
     <<" ", "b", " ">>,
     <<"c", " ", "d">>}

PersonNames ==
    {<<"a", ",", "b", ",", "c">>,
     <<"a", ",", "b", ",">>,
     <<" ", "a", " ", ",", " ", "b", " ", ",">>,
     <<",", "b", ",">>,
     <<"a", ",", "b">>,
     <<"a", ",", "b", ",", "c", ",", "d">>}

PersonDates ==
    {<<>>,
     <<" ">>,
     <<"1", ",", "1", ",", "1">>,
     <<"2", ",", "2">>,
     <<"3", ",", "3", ",">>,
     <<"x">>}

HolidayDescs ==
    {<<"E">>,
     <<" ", "E", " ">>}

HolidayDates ==
    {<<"1", ",", "7", ",", "2", "0", "2", "3">>,
     <<" ", "3", " ", ",", " ", "7", " ", ",", " ", "2", "0", "2", "3", " ">>,
     <<"3", "0", ",", "6", ",", "2", "0", "2", "3">>,
     <<"2", "5", ",", "1", "2">>,
     <<"9", ",", "4", ",", "x">>,
     <<"1", ",", "7", ",", "2", "0", "2", "3", ",", "5">>,
     <<>>}

LineKinds ==
    {<<"p", "e", "r", "s", "o", "n">>,
     <<" ", "h", "o", "l", "i", "d", "a", "y", " ">>,
     <<"s", "p", "e", "c", "i", "a", "l">>,
     <<"P", "e", "r", "s", "o", "n">>,
     <<>>}

LineBodies ==
    {<<"a", ",", "b", ",", "c", ";", "1", ",", "1", ",", "1", "9", "9", "0", ";", "2", ",", "2", ";", "3", ",", "3">>,
     <<"a", ",", "b", ";", ";", ";">>,
     <<"E", ";", "1", ",", "7", ",", "2", "0", "2", "3", ";", "3", ",", "7", ",", "2", "0", "2", "3">>,
     <<"E", ";", "2", "5", ",", "1", "2">>,
     <<"E", ";", "1", ",", "7", ",", "2", "0", "2", "3">>,
     <<"E">>}

ParseToday == Fixed_new(15, 6, 2023)

InitParse ==
    /\ now = ParseToday
    /\ events = <<>>
    /\ call = NoCall
    /\ ret = NoRet

Called(op, slots, c) == [op |-> op, slots |-> slots, text |-> join(slots, c)]

\* a name slot, then date slots
PersonSlotLists ==
    {<<n>> \o d : n \in PersonNames,
                  d \in {<<>>} \cup SlotLists(PersonDates, MaxSemiSlots - 1)}

\* a description slot, then date slots
HolidaySlotLists ==
    {<<n>> \o d : n \in HolidayDescs,
                  d \in {<<>>} \cup SlotLists(HolidayDates, MaxSemiSlots - 1)}

\* a kind slot, then body slots
LineSlotLists ==
    {<<k>> \o b : k \in LineKinds,
                  b \in {<<>>} \cup SlotLists(LineBodies, MaxEqualSlots - 1)}

CallRecurringTryFrom ==
    /\ call.op = "none"
    /\ \E slots \in SlotLists(NumberSlots, MaxCommaSlots) :
          /\ call' = Called("Recurring::try_from", slots, ",")
          /\ ret' = Recurring_try_from(join(slots, ","))
    /\ UNCHANGED <<now, events>>

CallFixedTryFrom ==
    /\ call.op = "none"
    /\ \E slots \in SlotLists(NumberSlots, MaxCommaSlots) :
          /\ call' = Called("Fixed::try_from", slots, ",")
          /\ ret' = Fixed_try_from(join(slots, ","))
    /\ UNCHANGED <<now, events>>

CallAnyDateTryFrom ==
    /\ call.op = "none"
    /\ \E slots \in SlotLists(NumberSlots, MaxCommaSlots) :
          /\ call' = Called("AnyDate::try_from", slots, ",")
          /\ ret' = AnyDate_try_from(join(slots, ","))
    /\ UNCHANGED <<now, events>>

CallParseName ==
    /\ call.op = "none"
    /\ \E slots \in SlotLists(NameSlots, MaxCommaSlots) :
          /\ call' = Called("parse_name", slots, ",")
          /\ ret' = parse_name(join(slots, ","))
    /\ UNCHANGED <<now, events>>

CallPersonTryFrom ==
    /\ call.op = "none"
    /\ \E slots \in PersonSlotLists :
          /\ call' = Called("Person::try_from", slots, ";")
          /\ ret' = Person_try_from(join(slots, ";"))
    /\ UNCHANGED <<now, events>>

CallHolidayTryFrom ==
    /\ call.op = "none"
    /\ \E slots \in HolidaySlotLists :
          /\ call' = Called("Holiday::try_from", slots, ";")
          /\ ret' = Holiday_try_from(join(slots, ";"))
    /\ UNCHANGED <<now, events>>

CallSpecialTryFrom ==
    /\ call.op = "none"
    /\ \E slots \in HolidaySlotLists :
          /\ call' = Called("Special::try_from", slots, ";")
          /\ ret' = Special_try_from(join(slots, ";"))
    /\ UNCHANGED <<now, events>>

CallExtract ==
    /\ call.op = "none"
    /\ \E slots \in LineSlotLists :
          /\ call' = Called("extract", slots, "=")
          /\ ret' = extract(join(slots, "="), now)
    /\ UNCHANGED <<now, events>>

NextParse ==
    \/ CallRecurringTryFrom
    \/ CallFixedTryFrom
    \/ CallAnyDateTryFrom
    \/ CallParseName
    \/ CallPersonTryFrom
    \/ CallHolidayTryFrom
    \/ CallSpecialTryFrom
    \/ CallExtract

SpecParse == InitParse /\ [][NextParse]_vars

\* how many c the text s holds
CountOf(s, c) == Cardinality({i \in 1..Len(s) : s[i] = c})

\* an error: no value comes with it
IsError(r) == ~r.ok /\ DOMAIN r = {"ok", "err"}

(***************************************************************************)
(* C8: a holiday with an end slot needs begin and end to parse as Fixed;   *)
(* begin < end is a Span, begin = end a single Fixed holiday, begin > end  *)
(* an error.  With no end slot begin is tried as Recurring, then as Fixed, *)
(* and is an error when neither parses.  An error carries no Holiday.      *)
(***************************************************************************)
C8_HolidayClassified ==
    (call.op = "Holiday::try_from" /\ Len(call.slots) \in {2, 3}) =>
        LET desc == trim(call.slots[1])
            begin == Fixed_try_from(call.slots[2])
            end == Fixed_try_from(call.slots[3])
            yearless == Recurring_try_from(call.slots[2])
        IN  IF Len(call.slots) = 3
            THEN IF begin.ok /\ end.ok
                 THEN /\ Before(begin.val, end.val) =>
                          ret = Ok(Holiday(desc, HolidayKind_Span(begin.val, end.val)))
                      /\ begin.val = end.val =>
                          ret = Ok(Holiday(desc, HolidayKind_Fixed(begin.val)))
                      /\ Before(end.val, begin.val) => IsError(ret)
                 ELSE IsError(ret)
            ELSE IF yearless.ok
                 THEN ret = Ok(Holiday(desc, HolidayKind_Recurring(yearless.val)))
                 ELSE IF begin.ok
                 THEN ret = Ok(Holiday(desc, HolidayKind_Fixed(begin.val)))
                 ELSE IsError(ret)

\* "E;1,7,2023; 3 , 7 , 2023 " is the Span from 1 to 3 July 2023
C8_Witness ==
    /\ call.op = "Holiday::try_from"
    /\ call.slots = <<<<"E">>, <<"1", ",", "7", ",", "2", "0", "2", "3">>,
                      <<" ", "3", " ", ",", " ", "7", " ", ",", " ", "2", "0", "2", "3", " ">>>>
    /\ ret = Ok(Holiday(<<"E">>,
                        HolidayKind_Span(Fixed_new(1, 7, 2023), Fixed_new(3, 7, 2023))))

(***************************************************************************)
(* C9: the name of a person, from the trimmed slots first_name, last_name  *)
(* and nickname: a non-empty nickname is the name; otherwise an empty      *)
(* first_name is an error; otherwise an empty last_name gives first_name   *)
(* alone; otherwise the name is first_name, a space, last_name.            *)
(***************************************************************************)
C9_NamePrecedence ==
    (call.op = "parse_name" /\ Len(call.slots) = 3) =>
        LET first_name == trim(call.slots[1])
            last_name == trim(call.slots[2])
            nickname == trim(call.slots[3])
        IN  IF nickname # <<>> THEN ret = Ok(nickname)
            ELSE IF first_name = <<>> THEN IsError(ret)
            ELSE IF last_name = <<>> THEN ret = Ok(first_name)
            ELSE ret = Ok(first_name \o <<" ">> \o last_name)

\* a last name alone, " b ", is rejected
C9_Witness ==
    /\ call.op = "parse_name"
    /\ call.slots = <<<<>>, <<" ", "b", " ">>, <<" ">>>>
    /\ IsError(ret)

(***************************************************************************)
(* C10: every grammar level needs its exact number of slots: a line one    *)
(* '=' and a kind among person, holiday, special; a Person body 4 slots    *)
(* and its name 3; a Holiday body 2 or 3; a Special body 2; a Recurring 2; *)
(* a Fixed 3.  AnyDate is Recurring only for 2 slots and Fixed only for 3, *)
(* and a saint day of 3 slots is rejected.                                 *)
(***************************************************************************)
C10_ExactSlotCounts ==
    LET commas == CountOf(call.text, ",")
        semicolons == CountOf(call.text, ";")
    IN  /\ (call.op = "Recurring::try_from" /\ ret.ok) => commas = 1
        /\ (call.op = "Fixed::try_from" /\ ret.ok) => commas = 2
        /\ (call.op = "AnyDate::try_from" /\ ret.ok) =>
               /\ ret.val.tag = "Recurring" => commas = 1
               /\ ret.val.tag = "Fixed" => commas = 2
        /\ (call.op = "parse_name" /\ ret.ok) => commas = 2
        /\ (call.op = "Person::try_from" /\ ret.ok) =>
               /\ semicolons = 3
               /\ CountOf(call.slots[1], ",") = 2
        /\ (call.op = "Person::try_from" /\ Len(call.slots) >= 3
                /\ CountOf(call.slots[3], ",") = 2) => IsError(ret)
        /\ (call.op = "Holiday::try_from" /\ ret.ok) => semicolons \in {1, 2}
        /\ (call.op = "Special::try_from" /\ ret.ok) => semicolons = 1
        /\ (call.op = "extract" /\ ret.ok) =>
               /\ CountOf(call.text, "=") = 1
               /\ trim(call.slots[1]) \in {PersonWord, HolidayWord, SpecialWord}

\* a person whose saint day has a year is rejected
C10_Witness ==
    /\ call.op = "Person::try_from"
    /\ call.slots = <<<<"a", ",", "b", ",", "c">>, <<"1", ",", "1", ",", "1">>,
                      <<"1", ",", "1", ",", "1">>, <<"2", ",", "2">>>>
    /\ ret = Err("extra ',' found")

(***************************************************************************)
(* SpecDerive: the records expanded into events, at several dates of the   *)
(* clock.                                                                  *)
(***************************************************************************)
DeriveTodays ==
    {Fixed_new(15, 6, 2023), Fixed_new(29, 2, 2024), Fixed_new(1, 3, 2024)}

\* days and months of the persons: around the clock, and 29 February
DeriveDates ==
    {Recurring_new(14, 6), Recurring_new(15, 6), Recurring_new(16, 6),
     Recurring_new(29, 2), Recurring_new(1, 1)}

DeriveYears == {1990, 2024, 2030}

AnyDateInputs ==
    {AnyDate_Recurring(r) : r \in DeriveDates}
        \cup {AnyDate_Fixed(Fixed_new(r.day, r.month, y)) : r \in DeriveDates, y \in DeriveYears}

OptionOf(values) == {None} \cup {Some(v) : v \in values}

PersonInputs ==
    {Person(<<"a", " ", "b">>, b, s, w) :
        b \in OptionOf(AnyDateInputs), s \in OptionOf(DeriveDates),
        w \in OptionOf(AnyDateInputs)}

SpanYears == {2023, 2024}

\* real and unreal dates at the ends of the months, and the two months of
\* summer
SpanDates ==
    {Fixed_new(d, m, y) : d \in EdgeDays, m \in EdgeMonths, y \in SpanYears}
        \cup {Fixed_new(1, 7, 2023), Fixed_new(31, 8, 2023)}

\* end is after begin, in the same or in the next month
SpanEnds(b) ==
    {x \in SpanDates :
        /\ Fixed_lt(b, x)
        /\ \/ x.year = b.year /\ x.month <= b.month + 1
           \/ x.year = b.year + 1 /\ b.month >= 12 /\ x.month <= 1}

SpanInputs ==
    UNION {{HolidayKind_Span(b, e) : e \in SpanEnds(b)} : b \in SpanDates}

HolidayInputs ==
    {Holiday(<<"E">>, k) :
        k \in SpanInputs
             \cup {HolidayKind_Recurring(r) : r \in DeriveDates}
             \cup {HolidayKind_Fixed(Fixed_new(r.day, r.month, y)) :
                      r \in DeriveDates, y \in DeriveYears}}

SpecialInputs ==
    {Special(<<"S">>, f) : f \in SpanDates}

InitDerive ==
    /\ now \in DeriveTodays
    /\ events = <<>>
    /\ call = NoCall
    /\ ret = NoRet

CallPersonIntoEvents ==
    /\ call.op = "none"
    /\ \E self \in PersonInputs :
          /\ call' = [op |-> "Person::into_events", self |-> self]
          /\ ret' = [events |-> Person_into_events(self, now)]
    /\ UNCHANGED <<now, events>>

CallHolidayIntoEvents ==
    /\ call.op = "none"
    /\ \E self \in HolidayInputs :
          /\ call' = [op |-> "Holiday::into_events", self |-> self]
          /\ ret' = [events |-> Holiday_into_events(self, now)]
    /\ UNCHANGED <<now, events>>

CallSpecialIntoEvents ==
    /\ call.op = "none"
    /\ \E self \in SpecialInputs :
          /\ call' = [op |-> "Special::into_events", self |-> self]
          /\ ret' = [events |-> Special_into_events(self)]
    /\ UNCHANGED <<now, events>>

NextDerive ==
    \/ CallPersonIntoEvents
    \/ CallHolidayIntoEvents
    \/ CallSpecialIntoEvents

SpecDerive == InitDerive /\ [][NextDerive]_vars

\* the description of the i-th of n events of a span
Countdown(desc, n, i) ==
    desc \o <<" ", "(">> \o format_int(n - i) \o DaysRemaining

\* one event a day from begin on, the last one on end, counting down to 0
SpanDayByDay(h, r) ==
    LET n == Len(r)
    IN  /\ n >= 2
        /\ r[1].date = h.kind.begin
        /\ r[n].date = h.kind.end
        /\ \A i \in 1..(n - 1) : r[i + 1].date = next(r[i].date)
        /\ \A i \in 1..(n - 1) : Before(r[i].date, r[i + 1].date)
        /\ \A i \in 1..n : r[i].kind = "Holiday"
        /\ \A i \in 1..n : r[i].desc = Countdown(h.desc, n, i)

(***************************************************************************)
(* C5 as stated: for every Span(begin, end) the parser accepts             *)
(* (begin < end), into_events gives one Holiday event a day from begin to  *)
(* end inclusive, in date order, each dated with that day; the countdown   *)
(* of the first event is the number of days from begin to end, it drops by *)
(* one from event to event and is 0 on the last.                           *)
(***************************************************************************)
C5_SpanOfAnyDates ==
    (call.op = "Holiday::into_events" /\ call.self.kind.tag = "Span") =>
        SpanDayByDay(call.self, ret.events)

(***************************************************************************)
(* The part of C5 the code keeps: the same for every Span(begin, end),     *)
(* begin < end, whose end is a real calendar date; when begin is one too,  *)
(* the events are the calendar days from begin to end and the first        *)
(* countdown is the number of calendar days between them.                  *)
(***************************************************************************)
SpanOfCalendarDates ==
    (call.op = "Holiday::into_events" /\ call.self.kind.tag = "Span"
        /\ IsCalendarDate(call.self.kind.end)) =>
        LET h == call.self
            r == ret.events
        IN  /\ SpanDayByDay(h, r)
            /\ IsCalendarDate(h.kind.begin) =>
                  /\ Len(r) = DayNumber(h.kind.end) - DayNumber(h.kind.begin) + 1
                  /\ \A i \in 1..Len(r) :
                        /\ IsCalendarDate(r[i].date)
                        /\ DayNumber(r[i].date) = DayNumber(h.kind.begin) + i - 1

\* 1 July to 31 August 2023: 62 events, from 61 days remaining down to 0
SummerSpan ==
    /\ call.op = "Holiday::into_events"
    /\ call.self.kind = HolidayKind_Span(Fixed_new(1, 7, 2023), Fixed_new(31, 8, 2023))
    /\ Len(ret.events) = 62
    /\ ret.events[1].desc = <<"E", " ", "(", "6", "1">> \o DaysRemaining
    /\ ret.events[62].desc = <<"E", " ", "(", "0">> \o DaysRemaining
    /\ ret.events[62].date = Fixed_new(31, 8, 2023)

\* 27 to 30 February 2023, which the parser accepts: to() counts 2 days, up
\* to 1 March, the loop stops after 28 February; two events, counting 2, 1
C5_Witness ==
    /\ call.op = "Holiday::into_events"
    /\ call.self.kind = HolidayKind_Span(Fixed_new(27, 2, 2023), Fixed_new(30, 2, 2023))
    /\ ret.events =
          <<Event("Holiday", Fixed_new(27, 2, 2023), <<"E", " ", "(", "2">> \o DaysRemaining),
            Event("Holiday", Fixed_new(28, 2, 2023), <<"E", " ", "(", "1">> \o DaysRemaining)>>

\* the dates a person has, in the order birthday, saint day, wedding day
PresentDates(p) ==
    (IF p.birthday.some
     THEN <<[kind |-> "Birthday", date |-> p.birthday.val, open |-> AgeOpen]>>
     ELSE <<>>)
    \o (IF p.saint_day.some
     THEN <<[kind |-> "SaintDay", date |-> AnyDate_Recurring(p.saint_day.val),
             open |-> <<>>]>>
     ELSE <<>>)
    \o (IF p.wedding_day.some
     THEN <<[kind |-> "Wedding", date |-> p.wedding_day.val, open |-> YearOpen]>>
     ELSE <<>>)

(***************************************************************************)
(* C7: Person::into_events gives one event for each of birthday, saint day *)
(* and wedding day that is present, in that order, each dated at           *)
(* next_match of its date.  For a date with a year the description is the  *)
(* name and "(age N)" or "(year N)", N = event year - year of the date;    *)
(* for a date without a year, and for the saint day, it is the name alone. *)
(***************************************************************************)
C7_PersonEvents ==
    call.op = "Person::into_events" =>
        LET p == call.self
            r == ret.events
            src == PresentDates(p)
        IN  /\ Len(r) = Len(src)
            /\ \A i \in 1..Len(r) :
                  LET d == src[i].date.date
                  IN  /\ r[i].kind = src[i].kind
                      /\ r[i].date = next_match(Fixed_new(d.day, d.month, 0), now)
                      /\ ~Before(r[i].date, now)
                      /\ r[i].desc =
                            IF src[i].date.tag = "Fixed"
                            THEN p.name \o src[i].open
                                   \o format_int(r[i].date.year - d.year) \o <<")">>
                            ELSE p.name

\* on 15 June 2023: born 16 June 1990, saint day 14 June, married 15 June
\* without a year
C7_Witness ==
    /\ call.op = "Person::into_events"
    /\ now = Fixed_new(15, 6, 2023)
    /\ ret.events =
          <<Event("Birthday", Fixed_new(16, 6, 2023), <<"a", " ", "b", " ", "(", "a", "g", "e", " ", "3", "3", ")">>),
            Event("SaintDay", Fixed_new(14, 6, 2024), <<"a", " ", "b">>),
            Event("Wedding", Fixed_new(15, 6, 2023), <<"a", " ", "b">>)>>

(***************************************************************************)
(* Spec: a run of main (src/src/main.rs).  The lines of the files are read *)
(* one after another, each one is parsed and its events are pushed; then   *)
(* the next events of each kind are selected and reported.  The clock may  *)
(* pass midnight between any two steps.                                    *)
(*                                                                         *)
(* call is the frame of main: its position pc, the lines of the files and  *)
(* the number of them read so far, the line the iterator gave last, the    *)
(* index of kind in KIND_LIST and the result of get_next (indices into     *)
(* events).  ret is what the run gave: the error main returned, the lines  *)
(* reported, and origin, a history that keeps for every event the date of  *)
(* the clock when it was derived and the record it was derived from.       *)
(***************************************************************************)
MaxLines == 3
MaxTicks == 1

MainStart == Fixed_new(15, 6, 2023)

\* a comment, a comment after a blank, an empty line, a person with three
\* dates, a person whose last slot is no date, a special of yesterday with a
\* comment, a span, a holiday
RawLines ==
    {<<" ", "#", "c">>,
     <<"#", "c">>,
     <<>>,
     <<"p", "e", "r", "s", "o", "n", "=", "a", ",", "b", ",", ";", "1", "5", ",", "6", ",", "1", "9", "9", "0", ";", "1", "6", ",", "6", ";", "1", "4", ",", "6", ",", "2", "0", "0", "0">>,
     <<"p", "e", "r", "s", "o", "n", "=", "a", ",", "b", ",", ";", "1", "5", ",", "6", ",", "1", "9", "9", "0", ";", ";", "x">>,
     <<"s", "p", "e", "c", "i", "a", "l", "=", "S", ";", "1", "4", ",", "6", ",", "2", "0", "2", "3", "#", "x">>,
     <<"h", "o", "l", "i", "d", "a", "y", "=", "E", ";", "1", "5", ",", "6", ",", "2", "0", "2", "3", ";", "1", "6", ",", "6", ",", "2", "0", "2", "3">>,
     <<"h", "o", "l", "i", "d", "a", "y", "=", "E", ";", "1", "6", ",", "6">>}

Files == UNION {[1..n -> RawLines] : n \in 0..MaxLines}

Frame(pc, lines, at, line, kind, filter) ==
    [op |-> "main", pc |-> pc, lines |-> lines, at |-> at, line |-> line,
     kind |-> kind, filter |-> filter]

Init ==
    /\ now = MainStart
    /\ events = <<>>
    /\ \E lines \in Files : call = Frame("read", lines, 0, None, 1, <<>>)
    /\ ret = [err |-> None, out |-> <<>>, origin |-> <<>>]

\* Utc::now() gives the next day
Tick ==
    /\ call.pc \notin {"done", "failed"}
    /\ to(MainStart, now) < MaxTicks
    /\ now' = next(now)
    /\ UNCHANGED <<events, call, ret>>

\* for line in file::read_lines(path)?
ReadLine ==
    /\ call.pc = "read"
    /\ LET read == SanitizedLinesIterator_next(call.lines, call.at)
       IN  call' = [call EXCEPT !.pc = IF read.item.some THEN "add" ELSE "select",
                                !.at = read.at,
                                !.line = read.item]
    /\ UNCHANGED <<now, events, ret>>

\* the record a line is
SourceOf(line) ==
    LET slots == split(line, "=")
    IN  IF trim(slots[1]) = PersonWord THEN "Person"
        ELSE IF trim(slots[1]) = SpecialWord THEN "Special"
        ELSE Holiday_try_from(slots[2]).val.kind.tag

\* the events pushed are derived today from a record of this source
Origin(origin, pushed, today, source) ==
    origin \o [i \in 1..pushed |-> [today |-> today, source |-> source]]

\* main after add_from: the ? returns the error, or the loop goes on
AfterAddFrom(added) ==
    /\ events' = added.vec
    /\ call' = [call EXCEPT !.pc = IF added.result.ok THEN "read" ELSE "failed"]
    /\ ret' = IF added.result.ok
              THEN [ret EXCEPT !.origin =
                      Origin(@, Len(added.vec) - Len(events), now,
                             SourceOf(call.line.val))]
              ELSE [ret EXCEPT !.err = Some(added.result.err)]

\* event::add_from(&line, &mut events)?
AddFrom ==
    /\ call.pc = "add"
    /\ AfterAddFrom(add_from(call.line.val, events, now))
    /\ UNCHANGED now

\* let filter = event::get_next(&events, kind);
GetNext ==
    /\ call.pc = "select"
    /\ call' = [call EXCEPT !.pc = "report",
                            !.filter = get_next(events, KIND_LIST[call.kind], now)]
    /\ UNCHANGED <<now, events, ret>>

\* the message of main for the events of filter; the dates and the kinds
\* are kept as values, not formatted
Message(kind, filter, today) ==
    IF filter = <<>>
    THEN [kind |-> kind, when |-> "none found", date |-> today, days |-> 0,
          descs |-> <<>>]
    ELSE LET date == events[filter[1]].date
         IN  [kind |-> kind,
              when |-> IF date = today THEN "Today!" ELSE "in days",
              date |-> date,
              days |-> IF date = today THEN 0 ELSE to(today, date),
              descs |-> [i \in 1..Len(filter) |-> events[filter[i]].desc]]

\* let now = date::Fixed::now(); ... println!("next {}: {}", kind, msg);
Report ==
    /\ call.pc = "report"
    /\ ret' = [ret EXCEPT
                 !.out = Append(@, Message(KIND_LIST[call.kind], call.filter, now))]
    /\ call' = IF call.kind < Len(KIND_LIST)
               THEN [call EXCEPT !.pc = "select", !.kind = @ + 1, !.filter = <<>>]
               ELSE [call EXCEPT !.pc = "done", !.filter = <<>>]
    /\ UNCHANGED <<now, events>>

Next ==
    \/ Tick
    \/ ReadLine
    \/ AddFrom
    \/ GetNext
    \/ Report

Spec == Init /\ [][Next]_vars

(***************************************************************************)
(* C11: ingestion is fail-fast and all-or-nothing for each line.  When     *)
(* add_from returns an error the list is as it was before the call, even   *)
(* if some fields of the line parsed, and the run stops there: no later    *)
(* line is read, nothing is selected and nothing is reported.              *)
(***************************************************************************)
C11_FailFast ==
    /\ [][/\ (call.pc = "add" /\ call'.pc # "add"
                /\ ~extract(call.line.val, now).ok) => ret'.err.some
          /\ (call.pc = "add" /\ ret'.err.some) =>
                /\ events' = events
                /\ call'.pc = "failed"
                /\ call'.at = call.at
          /\ (ret.err.some \/ call.pc = "failed") =>
                (events' = events /\ call' = call /\ ret' = ret)]_vars
    /\ [](ret.err.some =>
            (call.pc = "failed" /\ ret.out = <<>> /\ ~ENABLED Next))

\* the birthday of the failing line parsed, its wedding day did not; an
\* earlier line gave events and a later line is left unread
C11_Witness ==
    /\ call.pc = "failed"
    /\ ret.err.some
    /\ call.line = Some(<<"p", "e", "r", "s", "o", "n", "=", "a", ",", "b", ",", ";", "1", "5", ",", "6", ",", "1", "9", "9", "0", ";", ";", "x">>)
    /\ Person_try_from(SubSeq(call.line.val, 8, Len(call.line.val))).ok = FALSE
    /\ parse_name(<<"a", ",", "b", ",">>).ok
    /\ AnyDate_try_from(<<"1", "5", ",", "6", ",", "1", "9", "9", "0">>).ok
    /\ ~AnyDate_try_from(<<"x">>).ok
    /\ Len(events) > 0
    /\ call.at < Len(call.lines)
    /\ ret.out = <<>>

(***************************************************************************)
(* C12: the event list is append-only during ingestion and read-only       *)
(* during selection.  Every successful add_from leaves the earlier         *)
(* elements unchanged and in place and appends the events of its line at   *)
(* the end, in the order of their derivation; get_next, and every other    *)
(* step of the run, leaves the list as it is.                              *)
(***************************************************************************)
C12_AppendOnly ==
    [][/\ Len(events') >= Len(events)
       /\ SubSeq(events', 1, Len(events)) = events
       /\ (call.pc = "add" /\ call'.pc = "read") =>
             events' = events \o extract(call.line.val, now).val
       /\ call.pc # "add" => events' = events]_vars

\* a person and then a span were read, and every kind was selected and
\* reported: the three events of the person, then the two of the span
C12_Witness ==
    /\ call.pc = "done"
    /\ Len(ret.out) = Len(KIND_LIST)
    /\ now = MainStart
    /\ events =
          <<Event("Birthday", Fixed_new(15, 6, 2023), <<"a", " ", "b", " ", "(", "a", "g", "e", " ", "3", "3", ")">>),
            Event("SaintDay", Fixed_new(16, 6, 2023), <<"a", " ", "b">>),
            Event("Wedding", Fixed_new(14, 6, 2024), <<"a", " ", "b", " ", "(", "y", "e", "a", "r", " ", "2", "4", ")">>),
            Event("Holiday", Fixed_new(15, 6, 2023), <<"E", " ", "(", "1">> \o DaysRemaining),
            Event("Holiday", Fixed_new(16, 6, 2023), <<"E", " ", "(", "0">> \o DaysRemaining)>>

\* the records whose events are dated by next_match
MatchedSources == {"Person", "Recurring", "Fixed"}

\* get_next has just returned
Selected == call.pc = "select" /\ call'.pc = "report"

Refs(filter) == {filter[j] : j \in 1..Len(filter)}

(***************************************************************************)
(* C13: today is sampled again at each call site.  An event dated by       *)
(* next_match with the date of the clock at its derivation is returned by  *)
(* get_next exactly when the clock still shows that date at the selection; *)
(* when the date has advanced in between, its date is before the today of  *)
(* get_next and it is not returned.  There is such a run: C13_Witness.     *)
(***************************************************************************)
C13_TodayIsResampled ==
    [][Selected =>
         \A i \in 1..Len(events) :
            (/\ events[i].kind = KIND_LIST[call.kind]
             /\ ret.origin[i].source \in MatchedSources
             /\ events[i].date = ret.origin[i].today) =>
                /\ (now = ret.origin[i].today) <=> (i \in Refs(call'.filter))
                /\ (now # ret.origin[i].today) => Before(events[i].date, now)]_vars

\* born on 15 June: the line was read on 15 June 2023, the birthday is dated
\* that day; get_next ran on 16 June and found no birthday
C13_Witness ==
    /\ call.pc = "report"
    /\ KIND_LIST[call.kind] = "Birthday"
    /\ Len(events) >= 1
    /\ events[1] = Event("Birthday", Fixed_new(15, 6, 2023), <<"a", " ", "b", " ", "(", "a", "g", "e", " ", "3", "3", ")">>)
    /\ ret.origin[1].today = Fixed_new(15, 6, 2023)
    /\ now = Fixed_new(16, 6, 2023)
    /\ call.filter = <<>>

(***************************************************************************)
(* C15: when today is the same at derivation and at selection, every event *)
(* of a Person and of a Recurring or single-day Fixed holiday has a date   *)
(* >= today, so get_next for Birthday, SaintDay or Wedding is non-empty    *)
(* exactly when the list holds an event of that kind.  Only the events of  *)
(* a Special and of a Span, which keep their dates, can be before today.   *)
(***************************************************************************)
C15_MatchedEventsAreUpcoming ==
    [][/\ \A i \in 1..Len(events) :
             (ret.origin[i].today = now /\ Before(events[i].date, now)) =>
                ret.origin[i].source \in {"Special", "Span"}
       /\ (/\ Selected
           /\ KIND_LIST[call.kind] \in {"Birthday", "SaintDay", "Wedding"}
           /\ \A i \in 1..Len(events) : ret.origin[i].today = now) =>
              (call'.filter # <<>>
                 <=> \E i \in 1..Len(events) : events[i].kind = KIND_LIST[call.kind])]_vars

\* the clock has not moved: the birthday of today, the saint day of
\* tomorrow and the wedding day of yesterday (dated next year) were each
\* found; the special of yesterday is in the list and is not returned
C15_Witness ==
    /\ call.pc = "report"
    /\ now = MainStart
    /\ KIND_LIST[call.kind] = "Special"
    /\ \A i \in 1..Len(events) : ret.origin[i].today = now
    /\ \E i \in 1..Len(events) :
          /\ events[i] = Event("Special", Fixed_new(14, 6, 2023), <<"S">>)
          /\ ret.origin[i].source = "Special"
    /\ call.filter = <<>>
    /\ Len(ret.out) = 4
    /\ ret.out[1].when = "Today!"
    /\ ret.out[2].when = "in days" /\ ret.out[2].days = 1
    /\ ret.out[3].when = "in days" /\ ret.out[3].days = 365

\* the line up to its first '#', the whole line when it has none
StripComment(s) ==
    LET n == CHOOSE n \in 0..Len(s) :
                 /\ \A j \in 1..n : s[j] # "#"
                 /\ n = Len(s) \/ s[n + 1] = "#"
    IN  SubSeq(s, 1, n)

(***************************************************************************)
(* C14: of every line what follows the first '#' is removed before         *)
(* parsing, and a line that is then empty is skipped: it gives no record   *)
(* and no error.  The parser receives only non-empty lines, and a line     *)
(* that is only a comment never ends the run.                              *)
(***************************************************************************)
C14_CommentsStripped ==
    [][/\ (call.pc = "read" /\ call'.pc # "read") =>
             LET last == IF call'.line.some THEN call'.at - 1 ELSE call'.at
             IN  /\ call'.at >= call.at
                 /\ \A j \in (call.at + 1)..last : StripComment(call.lines[j]) = <<>>
                 /\ IF call'.line.some
                    THEN /\ call'.pc = "add"
                         /\ call'.at > call.at
                         /\ call'.line.val = StripComment(call.lines[call'.at])
                         /\ call'.line.val # <<>>
                    ELSE /\ call'.pc = "select"
                         /\ call'.at = Len(call.lines)
                 /\ events' = events
                 /\ ret' = ret
       /\ call.pc = "add" =>
             /\ call.line.some
             /\ call.line.val # <<>>
             /\ \A j \in 1..Len(call.line.val) : call.line.val[j] # "#"]_vars

\* a comment, an empty line and a special with a comment: the run ends
\* without an error, with the one event of the special
C14_Witness ==
    /\ call.pc = "done"
    /\ call.lines = <<<<"#", "c">>, <<>>, <<"s", "p", "e", "c", "i", "a", "l", "=", "S", ";", "1", "4", ",", "6", ",", "2", "0", "2", "3", "#", "x">>>>
    /\ ~ret.err.some
    /\ events = <<Event("Special", Fixed_new(14, 6, 2023), <<"S">>)>>
    /\ Len(ret.out) = Len(KIND_LIST)

====
